---- MODULE Spec2Model ----
(***************************************************************************)
(* usbkbd_cmdmode: a USB boot-protocol keyboard driver with a command mode *)
(* toggled by Ctrl+Space.  The model follows src/usbkbd_cmdmode.c: the     *)
(* interrupt callback diffs the six keycode slots of a report against the  *)
(* previous report, hands every release and then every press to            *)
(* process_key, and process_key forwards, swallows or synthesises key      *)
(* events on the device's virtual input device.                            *)
(***************************************************************************)
EXTENDS Integers, Sequences, FiniteSets, TLC

\* Keycodes of <linux/input.h> the driver names.
KEY_Q == 16
KEY_T == 20
KEY_LEFTCTRL == 29
KEY_A == 30
KEY_B == 48
KEY_LEFTALT == 56
KEY_SPACE == 57
KEY_RIGHTCTRL == 97
KEY_MAX == 767

\* unsigned char keys[6]: the keycode slots of a boot-protocol report.
NumSlots == 6

\* The bytes of a boot-protocol report: data[0..1], then the slots data[2..7].
ReportSize == 2 + NumSlots

\* Most keys reported down in one report.
MaxDown == 3

\* The interfaces the driver can be bound to.
Devices == {1, 2}

\* Keycode bytes the keyboards put in their reports.
HwKeys == {KEY_LEFTCTRL, KEY_RIGHTCTRL, KEY_SPACE, KEY_B, KEY_Q, KEY_A}

\* Keycodes that can reach the virtual input device: the forwarded keys and
\* the keys of the Ctrl+Alt+T macro.
InjKeys == HwKeys \cup {KEY_LEFTCTRL, KEY_LEFTALT, KEY_T}

\* urb->status values: 0 is success, the others are transfer errors.
UrbStatus == {0, -71}

Slots == 1..NumSlots

ZeroKeys == [i \in Slots |-> 0]

\* A report's keycode slots: the keys that are down, without duplicates, in
\* ascending order from slot 1, the empty slots holding 0.
Ascending(s) == \A i, j \in DOMAIN s : i < j => s[i] < s[j]

Packed(s) == [i \in Slots |-> IF i <= Len(s) THEN s[i] ELSE 0]

KeySetsOf(K, n) ==
    { Packed(s) : s \in { t \in UNION { [1..m -> K] : m \in 0..n } : Ascending(t) } }

KeySets == KeySetsOf(HwKeys, MaxDown)

VARIABLES
    kbd,        \* kbd[d]: the struct usbkbd_cmd of interface d
    old_keys,   \* the static old_keys[6] of usbkbd_cmd_irq
    virt_input, \* virt_input[d][k]: keycode k is down at d's input device
    last,       \* the most recent driver entry and what it did
    prev,       \* prev[d]: the report device d had processed last since it
                \* was attached, <<>> before its first
    held        \* held[d].down: the keys that were down when d last entered
                \* Command mode and have been down ever since; held[d].sent:
                \* the keys that were down then and whose release has been
                \* sent as an event when they were released

vars == <<kbd, old_keys, virt_input, last, prev, held>>

\* kzalloc: every field zero.
ZeroKbd ==
    [ alloc |-> TRUE,
      urb_submitted |-> FALSE,
      data_size |-> 0,
      command_mode |-> FALSE,
      ctrl_pressed |-> FALSE,
      space_pressed |-> FALSE,
      key_state |-> [k \in HwKeys |-> FALSE] ]

\* No struct usbkbd_cmd: before probe and after kfree.
NoKbd == [ZeroKbd EXCEPT !.alloc = FALSE]

\* The input device keeps, for every keycode, whether the last event sent
\* for it was a press: the key is down there until a release is sent.
NoEvents == [k \in InjKeys |-> FALSE]

\* The input device after the events of out, in order.
RECURSIVE Inject(_, _)
Inject(vi, out) ==
    IF out = <<>> THEN vi
    ELSE Inject([vi EXCEPT ![out[1][1]] = out[1][2]], Tail(out))

\* send_key that reports presses only.
send_key_pressonly(w, keycode, pressed) ==
    IF pressed THEN [w EXCEPT !.out = Append(@, <<keycode, pressed>>)] ELSE w

\* input_report_key + input_sync: one event at the virtual input device.
send_key(w, keycode, pressed) ==
    [w EXCEPT !.out = Append(@, <<keycode, pressed>>)]

send_ctrl_alt_t(w) ==
    send_key(send_key(send_key(send_key(send_key(send_key(w,
        KEY_LEFTCTRL, TRUE),
        KEY_LEFTALT, TRUE),
        KEY_T, TRUE),
        KEY_T, FALSE),
        KEY_LEFTALT, FALSE),
        KEY_LEFTCTRL, FALSE)

\* w.kbd is the device state, w.out the events sent so far in this callback,
\* w.took the way the call left process_key.
Took(w, branch) == [w EXCEPT !.took = branch]

\* process_key without the return that ends the chord check: the press that
\* toggles the mode goes on to the dispatch of the new mode.
process_key_noreturn(w, keycode, pressed) ==
    IF keycode >= KEY_MAX THEN Took(w, "range")
    ELSE
      LET k1 == [w.kbd EXCEPT !.key_state[keycode] = pressed]
          k2 == IF keycode = KEY_LEFTCTRL \/ keycode = KEY_RIGHTCTRL
                THEN [k1 EXCEPT !.ctrl_pressed = pressed] ELSE k1
          k3 == IF keycode = KEY_SPACE
                THEN [k2 EXCEPT !.space_pressed = pressed] ELSE k2
          k4 == IF k3.ctrl_pressed /\ k3.space_pressed /\ pressed
                THEN [k3 EXCEPT !.command_mode = ~@] ELSE k3
          w4 == [w EXCEPT !.kbd = k4]
      IN  IF ~k4.command_mode
          THEN Took(send_key(w4, keycode, pressed), "normal")
          ELSE IF ~pressed
          THEN Took(w4, "swallow")
          ELSE CASE keycode = KEY_B ->
                      Took(send_key(send_ctrl_alt_t(w4), KEY_B, FALSE), "b")
                 [] keycode = KEY_Q ->
                      Took(send_key([w4 EXCEPT !.kbd.command_mode = FALSE],
                                    KEY_Q, FALSE), "q")
                 [] OTHER ->
                      Took(send_key(w4, keycode, FALSE), "default")

\* process_key without the return of lines 77-78: a release in Command mode
\* goes on to the dispatch and is sent as (keycode, released).
process_key_norelease(w, keycode, pressed) ==
    IF keycode >= KEY_MAX THEN Took(w, "range")
    ELSE
      LET k1 == [w.kbd EXCEPT !.key_state[keycode] = pressed]
          k2 == IF keycode = KEY_LEFTCTRL \/ keycode = KEY_RIGHTCTRL
                THEN [k1 EXCEPT !.ctrl_pressed = pressed] ELSE k1
          k3 == IF keycode = KEY_SPACE
                THEN [k2 EXCEPT !.space_pressed = pressed] ELSE k2
          w3 == [w EXCEPT !.kbd = k3]
      IN  IF k3.ctrl_pressed /\ k3.space_pressed /\ pressed
          THEN Took([w3 EXCEPT !.kbd.command_mode = ~@], "toggle")
          ELSE IF ~k3.command_mode
          THEN Took(send_key(w3, keycode, pressed), "normal")
          ELSE CASE keycode = KEY_B ->
                      Took(send_key(send_ctrl_alt_t(w3), KEY_B, FALSE), "b")
                 [] keycode = KEY_Q ->
                      Took(send_key([w3 EXCEPT !.kbd.command_mode = FALSE],
                                    KEY_Q, FALSE), "q")
                 [] OTHER ->
                      Took(send_key(w3, keycode, FALSE), "default")

process_key(w, keycode, pressed) ==
    IF keycode >= KEY_MAX THEN Took(w, "range")
    ELSE
      LET k1 == [w.kbd EXCEPT !.key_state[keycode] = pressed]
          k2 == IF keycode = KEY_LEFTCTRL \/ keycode = KEY_RIGHTCTRL
                THEN [k1 EXCEPT !.ctrl_pressed = pressed] ELSE k1
          k3 == IF keycode = KEY_SPACE
                THEN [k2 EXCEPT !.space_pressed = pressed] ELSE k2
          w3 == [w EXCEPT !.kbd = k3]
      IN  IF k3.ctrl_pressed /\ k3.space_pressed /\ pressed
          THEN Took([w3 EXCEPT !.kbd.command_mode = ~@], "toggle")
          ELSE IF ~k3.command_mode
          THEN Took(send_key(w3, keycode, pressed), "normal")
          ELSE IF ~pressed
          THEN Took(w3, "swallow")
          ELSE CASE keycode = KEY_B ->
                      Took(send_key(send_ctrl_alt_t(w3), KEY_B, FALSE), "b")
                 [] keycode = KEY_Q ->
                      Took(send_key([w3 EXCEPT !.kbd.command_mode = FALSE],
                                    KEY_Q, FALSE), "q")
                 [] OTHER ->
                      Took(send_key(w3, keycode, FALSE), "default")

\* One call of process_key from the callback, recorded in w.calls with the
\* device state before and after it and the events it sent.
Call(w, keycode, pressed) ==
    LET r == process_key(w, keycode, pressed)
    IN  [r EXCEPT !.calls = Append(@,
            [ keycode |-> keycode,
              pressed |-> pressed,
              before |-> w.kbd,
              after |-> r.kbd,
              took |-> r.took,
              sent |-> SubSeq(r.out, Len(w.out) + 1, Len(r.out)) ])]

Found(key, keys) == \E j \in Slots : key = keys[j]

\* The first loop without its search of the new report: every key of the
\* previous report is released.
RECURSIVE ReleaseLoopAll(_, _, _, _)
ReleaseLoopAll(w, old, keys, i) ==
    IF i > NumSlots THEN w
    ELSE IF old[i] = 0 THEN ReleaseLoopAll(w, old, keys, i + 1)
    ELSE ReleaseLoopAll(Call(w, old[i], FALSE), old, keys, i + 1)

\* "Release keys no longer pressed": the first loop, from slot i on.
RECURSIVE ReleaseLoop(_, _, _, _)
ReleaseLoop(w, old, keys, i) ==
    IF i > NumSlots THEN w
    ELSE IF old[i] = 0 THEN ReleaseLoop(w, old, keys, i + 1)
    ELSE IF Found(old[i], keys) THEN ReleaseLoop(w, old, keys, i + 1)
    ELSE ReleaseLoop(Call(w, old[i], FALSE), old, keys, i + 1)

\* "Press new keys": the second loop, from slot i on.
RECURSIVE PressLoop(_, _, _, _)
PressLoop(w, old, keys, i) ==
    IF i > NumSlots THEN w
    ELSE IF keys[i] = 0 THEN PressLoop(w, old, keys, i + 1)
    ELSE IF Found(keys[i], old) THEN PressLoop(w, old, keys, i + 1)
    ELSE PressLoop(Call(w, keys[i], TRUE), old, keys, i + 1)

\* The two loops in the other order: presses first.
DiffReportPressFirst(k, old, keys) ==
    ReleaseLoop(PressLoop([kbd |-> k, out |-> <<>>, calls |-> <<>>, took |-> "none"],
                          old, keys, 1),
                old, keys, 1)

\* The two loops of the callback over one report.
DiffReport(k, old, keys) ==
    PressLoop(ReleaseLoop([kbd |-> k, out |-> <<>>, calls |-> <<>>, took |-> "none"],
                          old, keys, 1),
              old, keys, 1)

\* What the callback did, as kept in last.did: for every call of process_key,
\* its direction and the way it left process_key.
Did(calls) == { <<calls[i].pressed, calls[i].took>> : i \in DOMAIN calls }

NoneHeld == [down |-> {}, sent |-> {}]

\* held after one call of process_key: the call that enters Command mode
\* takes the keys marked pressed, the release of one of them ends that key's
\* stay and is noted when an event was sent for it, a press of a key clears
\* the key.
HeldStep(h, c) ==
    IF c.took = "toggle" /\ c.after.command_mode
    THEN [down |-> { k \in HwKeys : c.after.key_state[k] }, sent |-> {}]
    ELSE IF c.keycode \in h.down /\ ~c.pressed /\ c.sent # <<>>
    THEN [down |-> h.down \ {c.keycode}, sent |-> h.sent \cup {c.keycode}]
    ELSE [down |-> h.down \ {c.keycode}, sent |-> h.sent \ {c.keycode}]

\* held before call i of calls, h being held before the first.
RECURSIVE HeldBefore(_, _, _)
HeldBefore(h, calls, i) ==
    IF i = 1 THEN h ELSE HeldStep(HeldBefore(h, calls, i - 1), calls[i - 1])

HeldAfter(h, calls) == HeldBefore(h, calls, Len(calls) + 1)

Init ==
    /\ kbd = [d \in Devices |-> NoKbd]
    /\ old_keys = ZeroKeys
    /\ virt_input = [d \in Devices |-> NoEvents]
    /\ last = [op |-> "init", dev |-> 0, status |-> 0, did |-> {}]
    /\ prev = [d \in Devices |-> <<>>]
    /\ held = [d \in Devices |-> NoneHeld]

\* A keyboard interface is bound: a zeroed struct, a fresh input device, a
\* buffer of the endpoint's wMaxPacketSize, the interrupt URB submitted.
usbkbd_cmd_probe(d, size) ==
    /\ ~kbd[d].alloc
    /\ kbd' = [kbd EXCEPT ![d] = [ZeroKbd EXCEPT !.command_mode = FALSE,
                                                 !.data_size = size,
                                                 !.urb_submitted = TRUE]]
    /\ virt_input' = [virt_input EXCEPT ![d] = NoEvents]
    /\ last' = [op |-> "probe", dev |-> d, status |-> 0, did |-> {}]
    /\ prev' = [prev EXCEPT ![d] = <<>>]
    /\ held' = [held EXCEPT ![d] = NoneHeld]
    /\ UNCHANGED old_keys

\* The completion callback without the status check of lines 105-109: the
\* report is diffed whatever the status of the URB.
urb_complete_nostatus(d, reports, track) ==
    /\ kbd[d].alloc
    /\ kbd[d].urb_submitted
    /\ \E status \in UrbStatus :
       \E keys \in reports :
       \E w \in {DiffReport(kbd[d], old_keys, keys)} :
           /\ kbd' = [kbd EXCEPT ![d] = w.kbd]
           /\ old_keys' = keys
           /\ virt_input' = [virt_input EXCEPT ![d] = Inject(@, w.out)]
           /\ last' = [op |-> "irq", dev |-> d, status |-> status,
                       did |-> Did(w.calls)]
           /\ prev' = [prev EXCEPT ![d] = keys]
           /\ held' = held

\* The completion callback of the interrupt URB of device d, the report
\* drawn from reports; track tells whether the history variable held is kept.
urb_complete(d, reports, track) ==
    /\ kbd[d].alloc
    /\ kbd[d].urb_submitted
    /\ \E status \in UrbStatus :
         IF status # 0
         THEN /\ kbd' = [kbd EXCEPT ![d].urb_submitted = FALSE]
              /\ last' = [op |-> "irq", dev |-> d, status |-> status, did |-> {}]
              /\ UNCHANGED <<old_keys, virt_input, prev, held>>
         ELSE \E keys \in reports :
              \E w \in {DiffReport(kbd[d], old_keys, keys)} :
                  /\ kbd' = [kbd EXCEPT ![d] = w.kbd]
                  /\ old_keys' = keys
                  /\ virt_input' = [virt_input EXCEPT ![d] = Inject(@, w.out)]
                  /\ last' = [op |-> "irq", dev |-> d, status |-> status,
                              did |-> Did(w.calls)]
                  /\ prev' = [prev EXCEPT ![d] = keys]
                  /\ held' = IF track
                             THEN [held EXCEPT ![d] = HeldAfter(@, w.calls)]
                             ELSE held

\* The callback with the history variable held left alone.
usbkbd_cmd_irq(d, reports) == urb_complete(d, reports, FALSE)

\* The interface goes away: the URB is killed and the struct freed.
usbkbd_cmd_disconnect(d) ==
    /\ kbd[d].alloc
    /\ kbd' = [kbd EXCEPT ![d] = NoKbd]
    /\ last' = [op |-> "disconnect", dev |-> d, status |-> 0, did |-> {}]
    /\ prev' = [prev EXCEPT ![d] = <<>>]
    /\ held' = [held EXCEPT ![d] = NoneHeld]
    /\ UNCHANGED <<old_keys, virt_input>>

\* One keyboard.
Next ==
    \/ usbkbd_cmd_probe(1, ReportSize)
    \/ usbkbd_cmd_irq(1, KeySets)
    \/ usbkbd_cmd_disconnect(1)

Spec == Init /\ [][Next]_vars

\* Keycode bytes of the keyboards when two are attached.
TwoKeys == {KEY_LEFTCTRL, KEY_SPACE}

\* Two keyboards, their callbacks interleaved in any order.
NextTwo ==
    \E d \in Devices :
        \/ usbkbd_cmd_probe(d, ReportSize)
        \/ usbkbd_cmd_irq(d, KeySetsOf(TwoKeys, MaxDown))
        \/ usbkbd_cmd_disconnect(d)

SpecTwo == Init /\ [][NextTwo]_vars

\* wMaxPacketSize values below the size of a boot-protocol report.
ShortSizes == {4, 7}

\* One keyboard whose interrupt endpoint has a short wMaxPacketSize.  The
\* callback reads data[2..7] whatever data_size is: the slots beyond the
\* buffer hold whatever lies behind it, any report of KeySets.
NextShort ==
    \/ \E size \in ShortSizes : usbkbd_cmd_probe(1, size)
    \/ usbkbd_cmd_irq(1, KeySets)
    \/ usbkbd_cmd_disconnect(1)

SpecShort == Init /\ [][NextShort]_vars

\* Keycode bytes of the keyboard whose held keys are followed.
HeldKeys == {KEY_LEFTCTRL, KEY_SPACE, KEY_B, KEY_Q, KEY_A}

\* One keyboard, the history variable held kept up to date.
NextHeld ==
    \/ usbkbd_cmd_probe(1, ReportSize)
    \/ urb_complete(1, KeySetsOf(HeldKeys, MaxDown), TRUE)
    \/ usbkbd_cmd_disconnect(1)

SpecHeld == Init /\ [][NextHeld]_vars

(***************************************************************************)
(* What a step did.  A step that processed a report leaves last.op = "irq" *)
(* with status 0; its report is the new old_keys and its run is the run of  *)
(* the two loops from the state before the step.                           *)
(***************************************************************************)
Reported == last'.op = "irq" /\ last'.status = 0

Run == DiffReport(kbd[last'.dev], old_keys, old_keys')

\* P holds of every call of process_key made by a step that processed a report.
EveryCall(P(_)) ==
    Reported => \A run \in {Run} : \A i \in DOMAIN run.calls : P(run.calls[i])

NonZero(keys) == { keys[i] : i \in Slots } \ {0}

NothingDown(d) == \A k \in InjKeys : ~virt_input[d][k]

ChordHeld(k) == k.ctrl_pressed /\ k.space_pressed

\* The press that completes the chord: a press of Ctrl or Space that makes
\* Ctrl and Space both held, which they were not before it.
ChordCompleting(c) ==
    /\ c.pressed
    /\ c.keycode \in {KEY_LEFTCTRL, KEY_RIGHTCTRL, KEY_SPACE}
    /\ ~ChordHeld(c.before)
    /\ ChordHeld(c.after)

\* C1: no stuck key. Once a report with all six slots empty has been
\* processed, and when the device is then detached, no keycode is left
\* pressed at the device's input device: every press sent was followed by a
\* release.
NoStuckKey ==
    (/\ last.op \in {"irq", "disconnect"}
     /\ last.status = 0
     /\ old_keys = ZeroKeys)
    => NothingDown(last.dev)

\* A press in out for a keycode that is down at that point of the stream.
RECURSIVE BadPress(_, _)
BadPress(vi, out) ==
    IF out = <<>> THEN FALSE
    ELSE \/ out[1][2] /\ vi[out[1][1]]
         \/ BadPress([vi EXCEPT ![out[1][1]] = out[1][2]], Tail(out))

\* C2: in the stream of events sent to an input device, forwarded keys and
\* the Ctrl/Alt/T macro together, no keycode is reported pressed twice
\* without a release in between: no press is sent for a keycode whose latest
\* event is a press.
NoDoublePress ==
    [][Reported => ~BadPress(virt_input[last'.dev], Run.out)]_vars

\* C3: chord edge-triggering. The chord check toggles the mode only on the
\* press of Ctrl or Space that completes the chord; no other call, such as
\* the press of a third key while Ctrl and Space stay held, toggles it.
ToggledByOtherKey(c) == c.took = "toggle" /\ ~ChordCompleting(c)

EdgeTriggered(c) == ~ToggledByOtherKey(c)

ChordEdgeTriggered == [][EveryCall(EdgeTriggered)]_vars

\* The toggle scenario: device d is in Normal mode with no key held, a report
\* presses one Ctrl key, the next report adds Space.
Idle(d) ==
    /\ kbd[d].alloc /\ kbd[d].urb_submitted
    /\ ~kbd[d].command_mode /\ ~kbd[d].ctrl_pressed /\ ~kbd[d].space_pressed
    /\ \A k \in HwKeys : ~kbd[d].key_state[k]
    /\ old_keys = ZeroKeys

CtrlDown(d, c) ==
    /\ kbd[d].alloc /\ kbd[d].urb_submitted
    /\ ~kbd[d].command_mode /\ kbd[d].ctrl_pressed /\ ~kbd[d].space_pressed
    /\ \A k \in HwKeys : kbd[d].key_state[k] <=> k = c
    /\ NonZero(old_keys) = {c}

PressesCtrl(d, c) == Idle(d) /\ Reported /\ last'.dev = d /\ NonZero(old_keys') = {c}

AddsSpace(d, c) ==
    CtrlDown(d, c) /\ Reported /\ last'.dev = d /\ NonZero(old_keys') = {c, KEY_SPACE}

EventsFor(out, K) == { i \in DOMAIN out : out[i][1] \in K }

\* C4 as stated: the scenario leaves the mode at Command and sends no event
\* for Ctrl and no event for Space.
ToggleScenarioSilent ==
    [][\A d \in Devices, c \in {KEY_LEFTCTRL, KEY_RIGHTCTRL} :
         /\ PressesCtrl(d, c) => EventsFor(Run.out, {c, KEY_SPACE}) = {}
         /\ AddsSpace(d, c) => /\ kbd'[d].command_mode
                                /\ EventsFor(Run.out, {c, KEY_SPACE}) = {}]_vars

\* C4: the toggle scenario leaves the mode at Command; the press of Ctrl is
\* forwarded as the one event (Ctrl, pressed), and the press of Space sends
\* no event at all.
ToggleScenario ==
    [][\A d \in Devices, c \in {KEY_LEFTCTRL, KEY_RIGHTCTRL} :
         /\ PressesCtrl(d, c) => /\ Run.out = << <<c, TRUE>> >>
                                  /\ ~kbd'[d].command_mode
         /\ AddsSpace(d, c) => /\ kbd'[d].command_mode
                                /\ Run.out = <<>>]_vars

\* The scenario has run: the last report added Space to a held Ctrl and
\* toggled the mode to Command, Ctrl is down at the input device, Space not.
ToggleScenarioReached ==
    /\ last.op = "irq" /\ last.status = 0
    /\ last.did = {<<TRUE, "toggle">>}
    /\ kbd[last.dev].command_mode
    /\ NonZero(old_keys) = {KEY_LEFTCTRL, KEY_SPACE}
    /\ \A k \in HwKeys : kbd[last.dev].key_state[k] <=> k \in {KEY_LEFTCTRL, KEY_SPACE}
    /\ \A k \in InjKeys : virt_input[last.dev][k] <=> k = KEY_LEFTCTRL

\* C5: pass-through in Normal mode. A call made in Normal mode that is not
\* the chord-completing press sends exactly the event (keycode, pressed) and
\* leaves the mode Normal.
PassesThrough(c) ==
    (~c.before.command_mode /\ ~ChordCompleting(c))
    => /\ c.sent = << <<c.keycode, c.pressed>> >>
       /\ ~c.after.command_mode

PassThroughNormal == [][EveryCall(PassesThrough)]_vars

MacroThenRelease ==
    << <<KEY_LEFTCTRL, TRUE>>, <<KEY_LEFTALT, TRUE>>, <<KEY_T, TRUE>>,
       <<KEY_T, FALSE>>, <<KEY_LEFTALT, FALSE>>, <<KEY_LEFTCTRL, FALSE>>,
       <<KEY_B, FALSE>> >>

\* C6: open-terminal. A press of B processed in Command mode sends the six
\* events of the Ctrl+Alt+T macro and then (B, released), in that order, and
\* leaves the mode Command.
OpensTerminal(c) ==
    (c.before.command_mode /\ c.pressed /\ c.keycode = KEY_B)
    => /\ c.sent = MacroThenRelease
       /\ c.after.command_mode

OpenTerminal == [][EveryCall(OpensTerminal)]_vars

\* C7: exit. A press of Q processed in Command mode sets the mode to Normal
\* and sends exactly the event (Q, released).
Exits(c) ==
    (c.before.command_mode /\ c.pressed /\ c.keycode = KEY_Q)
    => /\ c.sent = << <<KEY_Q, FALSE>> >>
       /\ ~c.after.command_mode

ExitCommand == [][EveryCall(Exits)]_vars

\* C8: unknown command. A press of any keycode other than B and Q, Ctrl and
\* Space included, processed in Command mode sends exactly the event
\* (keycode, released) and leaves the mode Command.
IgnoresUnknown(c) ==
    (c.before.command_mode /\ c.pressed /\ c.keycode \notin {KEY_B, KEY_Q})
    => /\ c.sent = << <<c.keycode, FALSE>> >>
       /\ c.after.command_mode

UnknownCommand == [][EveryCall(IgnoresUnknown)]_vars

CallsOf(calls, keycode, pressed) ==
    { i \in DOMAIN calls : calls[i].keycode = keycode /\ calls[i].pressed = pressed }

\* C9: differ result. The calls of process_key for a report are exactly one
\* release for each non-zero keycode of the previous report absent from the
\* report and one press for each non-zero keycode of the report absent from
\* the previous one: keycode 0 is never handed on, and a keycode in both
\* reports, at whatever slot, is not handed on.
DifferResult ==
    [][Reported =>
         \A run \in {Run} :
           LET gone == NonZero(old_keys) \ NonZero(old_keys')
               new == NonZero(old_keys') \ NonZero(old_keys)
           IN  /\ \A k \in gone : Cardinality(CallsOf(run.calls, k, FALSE)) = 1
               /\ \A k \in new : Cardinality(CallsOf(run.calls, k, TRUE)) = 1
               /\ Len(run.calls) = Cardinality(gone) + Cardinality(new)
               /\ \A i \in DOMAIN run.calls : run.calls[i].keycode # 0]_vars

\* The last report made the callback hand on a release and a press, and two
\* keys are down after it.
DifferResultReached ==
    /\ last.op = "irq" /\ last.status = 0
    /\ \E x, y \in last.did : x[1] /\ ~y[1]
    /\ Cardinality(NonZero(old_keys)) = 2
    /\ Cardinality({k \in HwKeys : kbd[last.dev].key_state[k]}) = 2

\* C10: diff ordering. Within one report every release is handed to
\* process_key before any press.
DiffOrdering ==
    [][Reported =>
         \A run \in {Run} :
           \A i, j \in DOMAIN run.calls :
             (i < j /\ run.calls[i].pressed) => run.calls[j].pressed]_vars

\* The last report both released and pressed keys in Normal mode, so both
\* directions reached the input device.
DiffOrderingReached ==
    /\ last.op = "irq" /\ last.status = 0
    /\ {<<FALSE, "normal">>, <<TRUE, "normal">>} \subseteq last.did

\* C11: when a device delivers a report whose six keycode slots equal those
\* of the report it had processed last, no call of process_key is made, no
\* event is sent, and the mode, the latches and the key state stay as they
\* were.
DiffIdempotent ==
    [][ (Reported /\ old_keys' = prev[last'.dev])
        => /\ Run.calls = <<>>
           /\ virt_input' = virt_input
           /\ kbd'[last'.dev] = kbd[last'.dev] ]_vars

Failed == last'.op = "irq" /\ last'.status # 0

\* C12: a callback with a non-zero status decodes and diffs nothing: no call
\* of process_key is made, no event is sent, and the mode, the two latches,
\* the key-state table and the stored previous report stay as they were.
TransportError ==
    [][ Failed
        => /\ last'.did = {}
           /\ virt_input' = virt_input
           /\ old_keys' = old_keys
           /\ \A d \in Devices :
                /\ kbd'[d].command_mode = kbd[d].command_mode
                /\ kbd'[d].ctrl_pressed = kbd[d].ctrl_pressed
                /\ kbd'[d].space_pressed = kbd[d].space_pressed
                /\ kbd'[d].key_state = kbd[d].key_state ]_vars

\* A callback has failed on a device in Command mode with a latch set and a
\* key in the stored previous report.
TransportErrorReached ==
    /\ last.op = "irq" /\ last.status # 0
    /\ kbd[last.dev].command_mode
    /\ kbd[last.dev].ctrl_pressed
    /\ old_keys # ZeroKeys

\* C13: a transport error is not fatal: after a callback with a non-zero
\* status the interrupt URB of the still attached device is in flight again,
\* so that a later report of the device is delivered, diffed and processed.
ErrorNotFatal ==
    (last.op = "irq" /\ last.status # 0 /\ kbd[last.dev].alloc)
        => kbd[last.dev].urb_submitted

\* C14: when the report buffer of the device is shorter than the eight bytes
\* of a report, a delivered report is dropped: no call of process_key is made,
\* no event is sent, and the mode, the latches, the key state and the stored
\* previous report stay as they were.
ShortReportDropped ==
    [][ (Reported /\ kbd[last'.dev].data_size < ReportSize)
        => /\ last'.did = {}
           /\ old_keys' = old_keys
           /\ virt_input' = virt_input
           /\ kbd'[last'.dev] = kbd[last'.dev] ]_vars

\* C16: the previous report is kept per device: whatever the interleaving of
\* the callbacks of the attached devices, the report that a device's next
\* report is diffed against is the report that this device had processed
\* last, never changed by a report of another device.
PerDevicePrevious ==
    \A d \in Devices :
        (kbd[d].alloc /\ prev[d] # <<>>) => old_keys = prev[d]

\* The device state after a release of keycode has been recorded and nothing
\* else has been done.
Released(k, keycode) ==
    [k EXCEPT !.key_state[keycode] = FALSE,
              !.ctrl_pressed = IF keycode \in {KEY_LEFTCTRL, KEY_RIGHTCTRL}
                               THEN FALSE ELSE @,
              !.space_pressed = IF keycode = KEY_SPACE THEN FALSE ELSE @]

Swallows(c) ==
    (c.before.command_mode /\ ~c.pressed)
    => /\ c.sent = <<>>
       /\ c.after.command_mode
       /\ c.after = Released(c.before, c.keycode)

\* C17: releases are swallowed in Command mode. A release processed in
\* Command mode sends no event and leaves the mode Command; it changes only
\* the key-state entry of the keycode and, for Ctrl and Space, the latch.
SwallowReleases == [][EveryCall(Swallows)]_vars

\* A callback has swallowed the release of a key other than Ctrl and Space
\* and left that key down at the input device.
SwallowReleasesReached ==
    /\ last.op = "irq" /\ last.status = 0
    /\ <<FALSE, "swallow">> \in last.did
    /\ kbd[last.dev].command_mode
    /\ virt_input[last.dev][KEY_A]
    /\ ~kbd[last.dev].key_state[KEY_A]

\* C18 as stated: a key that was down when Command mode was entered never
\* has its release sent as an event afterwards, not even when it is released
\* after the mode has returned to Normal, unless it is pressed again first.
HeldNeverReleased == \A d \in Devices : held[d].sent = {}

ReleaseOfHeld(c, h) ==
    (~c.pressed /\ c.keycode \in h.down)
    => c.sent = IF c.before.command_mode
                THEN <<>>
                ELSE << <<c.keycode, FALSE>> >>

\* C18: a key that was down when Command mode was entered and has been down
\* ever since has no event sent for its release when the release is processed
\* in Command mode; when the release is processed after the mode has returned
\* to Normal, exactly the event (keycode, released) is sent.
HeldRelease ==
    [][ Reported
        => \A run \in {Run} : \A i \in DOMAIN run.calls :
              ReleaseOfHeld(run.calls[i],
                            HeldBefore(held[last'.dev], run.calls, i)) ]_vars

\* A key that was down when Command mode was entered has been released in
\* Normal mode and its release has been sent, while the release of another
\* such key was swallowed and left that key down at the input device.
HeldReleaseReached ==
    /\ last.op = "irq" /\ last.status = 0
    /\ <<FALSE, "normal">> \in last.did
    /\ ~kbd[last.dev].command_mode
    /\ KEY_A \in held[last.dev].sent
    /\ virt_input[last.dev][KEY_LEFTCTRL]
    /\ ~kbd[last.dev].key_state[KEY_LEFTCTRL]

\* C19: the latches follow the key-state table: ctrl_pressed is true exactly
\* when Left Ctrl or Right Ctrl is marked pressed in key_state, and
\* space_pressed exactly when Space is marked pressed.
LatchesFollowKeys ==
    \A d \in Devices :
        kbd[d].alloc
        => /\ kbd[d].ctrl_pressed
               <=> (kbd[d].key_state[KEY_LEFTCTRL] \/ kbd[d].key_state[KEY_RIGHTCTRL])
           /\ kbd[d].space_pressed <=> kbd[d].key_state[KEY_SPACE]

\* C20: no diff state survives a detach. The first report that a device has
\* processed after it was attached is diffed against an empty previous
\* report: no release is handed to process_key and one press is for every
\* non-zero keycode of the report, the device being in Normal mode with both
\* latches clear when the report arrives.
FreshAfterAttach ==
    [][ (last.op = "probe" /\ Reported /\ last'.dev = last.dev)
        => /\ ~kbd[last.dev].command_mode
           /\ ~kbd[last.dev].ctrl_pressed
           /\ ~kbd[last.dev].space_pressed
           /\ \A run \in {Run} :
                /\ \A i \in DOMAIN run.calls : run.calls[i].pressed
                /\ { run.calls[i].keycode : i \in DOMAIN run.calls }
                       = NonZero(old_keys') ]_vars
====
